---- MODULE Spec2Model ----
(***************************************************************************)
(* Note-Synthesis: the four-stage taxonomy pipeline of synthesis.py.       *)
(*                                                                         *)
(*   pre_process_notes   notes/inbox/*.md  -> notes.json, files moved to   *)
(*                       notes/processed                                   *)
(*   extract_categories  notes.json        -> extractions.json             *)
(*   merge_categories    extractions.json  -> merged_categories.json       *)
(*   build_category_notes  extractions.json, merged_categories.json        *)
(*                                         -> category_notes.json          *)
(*                                                                         *)
(* The state is the file system the stages share.  Each action is one run  *)
(* of one stage, from its first statement to its return or to the          *)
(* exception that ends it.  The collaborator (Model.invoke) and the file   *)
(* system's failures are inputs, drawn with \E.                            *)
(***************************************************************************)
EXTENDS Integers, Sequences, FiniteSets, TLC

\* ------------------------------------------------------------------ bounds

\* stage runs in one behaviour of the pipeline specification
MaxRuns == 3
\* fragments in one collaborator response
MaxFrags == 1
\* raw labels in one group of a collaborator mapping
MaxSubs == 1

\* ------------------------------------------------------------------ inputs

\* names of the *.md sources that can be placed in notes/inbox
NoteFiles == {"a.md", "b.md"}
\* text of a source
Contents == {"buy milk", "xyz123"}
\* raw category labels the collaborator answers with
RawLabels == {"Shopping", "Groceries"}
\* canonical names the collaborator answers with; one is also a raw label
CanonicalNames == {"Shopping List", "Shopping"}
\* excerpts the collaborator answers with
Excerpts == {"buy milk"}
\* the note_id strings the collaborator answers with
NoteIdStrings == {"0", "1"}

\* ------------------------------------------------------------------ state

VARIABLES
    inbox,                \* notes/inbox: file name -> text
    processed,            \* notes/processed: file name -> text
    notes_json,           \* notes/structured/notes.json
    extractions_json,     \* notes/structured/extractions.json
    merged_json,          \* notes/structured/merged_categories.json
    category_notes_json,  \* notes/structured/category_notes.json
    last,                 \* the stage run last and the exception that ended it
    runs                  \* stage runs so far

vars == <<inbox, processed, notes_json, extractions_json, merged_json,
          category_notes_json, last, runs>>

\* a file of notes/structured: absent, or holding one JSON document
NoFile == [exists |-> FALSE, data |-> <<>>]
File(doc) == [exists |-> TRUE, data |-> doc]

\* the empty directory
EmptyDir == [f \in {} |-> ""]

\* str(i) of a note id, as the f-string of the payload renders it
IdStr(i) == <<"0", "1", "2", "3">>[i + 1]

\* all sequences over S of length at most n
SeqsUpTo(S, n) == UNION {[1..k -> S] : k \in 0..n}

\* all orders in which a scan can yield the members of S
Orders(S) == {o \in [1..Cardinality(S) -> S] :
                 \A i, j \in 1..Cardinality(S) : i # j => o[i] # o[j]}

\* ------------------------------------------------------ pre_process_notes

\* Scan with the ids counted from 1 (enumerate(..., 1))
RECURSIVE ScanFromOne(_, _, _, _, _, _)
ScanFromOne(order, unreadable, i, notes_array, inb, proc) ==
    IF i > Len(order)
    THEN [err |-> "none", notes_array |-> notes_array, inbox |-> inb, processed |-> proc]
    ELSE LET note_file == order[i] IN
         IF note_file \in unreadable
         THEN [err |-> "IntakeReadError", notes_array |-> notes_array,
               inbox |-> inb, processed |-> proc]
         ELSE LET appended == Append(notes_array,
                                     [title |-> note_file,
                                      content |-> inb[note_file],
                                      ID |-> i])
              IN IF note_file \in DOMAIN proc
                 THEN [err |-> "MoveError", notes_array |-> appended,
                       inbox |-> inb, processed |-> proc]
                 ELSE ScanFromOne(order, unreadable, i + 1, appended,
                                  [g \in DOMAIN inb \ {note_file} |-> inb[g]],
                                  (note_file :> inb[note_file]) @@ proc)

\* The loop of pre_process_notes from position i on: read, append, move.
\* unreadable: the sources whose read_text raises in this run.  shutil.move
\* raises when notes/processed already holds a file of that name.
RECURSIVE Scan(_, _, _, _, _, _)
Scan(order, unreadable, i, notes_array, inb, proc) ==
    IF i > Len(order)
    THEN [err |-> "none", notes_array |-> notes_array, inbox |-> inb, processed |-> proc]
    ELSE LET note_file == order[i] IN
         IF note_file \in unreadable
         THEN [err |-> "IntakeReadError", notes_array |-> notes_array,
               inbox |-> inb, processed |-> proc]
         ELSE LET appended == Append(notes_array,
                                     [title |-> note_file,
                                      content |-> inb[note_file],
                                      ID |-> i - 1])
              IN IF note_file \in DOMAIN proc
                 THEN [err |-> "MoveError", notes_array |-> appended,
                       inbox |-> inb, processed |-> proc]
                 ELSE Scan(order, unreadable, i + 1, appended,
                           [g \in DOMAIN inb \ {note_file} |-> inb[g]],
                           (note_file :> inb[note_file]) @@ proc)

pre_process_notes ==
    /\ \E order \in Orders(DOMAIN inbox), unreadable \in SUBSET DOMAIN inbox :
          LET r == Scan(order, unreadable, 1, <<>>, inbox, processed) IN
          /\ inbox' = r.inbox
          /\ processed' = r.processed
          /\ notes_json' = IF r.err = "none" THEN File(r.notes_array) ELSE notes_json
          /\ last' = [op |-> "pre_process_notes", err |-> r.err]
    /\ UNCHANGED <<extractions_json, merged_json, category_notes_json>>

\* a source is placed in the intake area (the user's act, not a stage)
Arrive ==
    /\ \E f \in NoteFiles \ DOMAIN inbox, c \in Contents :
          inbox' = (f :> c) @@ inbox
    /\ last' = [op |-> "arrive", err |-> "none"]
    /\ UNCHANGED <<processed, notes_json, extractions_json, merged_json,
                   category_notes_json>>

\* --------------------------------------------------- the collaborator

\* Extraction: category and content, both strings
Fragments == [category : RawLabels, content : Excerpts]

\* every document CategoryExtractionResponse.model_validate_json accepts:
\* note_id any string, extractions any list of Extraction, unused any bool
Responses == [note_id : NoteIdStrings,
              extractions : SeqsUpTo(Fragments, MaxFrags),
              unused : BOOLEAN]

NoResponse == [note_id |-> "0", extractions |-> <<>>, unused |-> TRUE]

\* what Model.invoke does for one note: it returns a document the schema
\* accepts, it returns one the schema rejects, or it raises
Answers == {[kind |-> "ok", response |-> r] : r \in Responses}
           \cup {[kind |-> k, response |-> NoResponse] :
                    k \in {"SchemaValidationError", "CollaboratorUnavailableError"}}

\* every document CategoryNormalization.model_validate_json accepts, as the
\* ordered list of the groups of "categories": the keys of a JSON object are
\* distinct, the values any lists of strings
Groups == [name : CanonicalNames, subs : SeqsUpTo(RawLabels, MaxSubs)]
Mappings == {m \in SeqsUpTo(Groups, Cardinality(CanonicalNames)) :
                \A i, j \in 1..Len(m) : i # j => m[i].name # m[j].name}

MergeAnswers == {[kind |-> "ok", mapping |-> m] : m \in Mappings}
                \cup {[kind |-> k, mapping |-> <<>>] :
                         k \in {"SchemaValidationError", "CollaboratorUnavailableError"}}

\* ----------------------------------------------------- extract_categories

\* ExtractLoop with the call wrapped in try/except: a note whose call or
\* validation fails is skipped and the loop goes on
RECURSIVE ExtractLoopSkip(_, _, _, _)
ExtractLoopSkip(notes, answers, i, response_list) ==
    IF i > Len(notes)
    THEN [err |-> "none", response_list |-> response_list]
    ELSE ExtractLoopSkip(notes, answers, i + 1,
                         IF answers[i].kind # "ok"
                         THEN response_list
                         ELSE Append(response_list, answers[i].response))

\* The loop of extract_categories from note i on.  answers[i] is what the
\* collaborator does when invoked for notes[i].
RECURSIVE ExtractLoop(_, _, _, _)
ExtractLoop(notes, answers, i, response_list) ==
    IF i > Len(notes)
    THEN [err |-> "none", response_list |-> response_list]
    ELSE IF answers[i].kind # "ok"
         THEN [err |-> answers[i].kind, response_list |-> response_list]
         ELSE ExtractLoop(notes, answers, i + 1,
                          Append(response_list, answers[i].response))

extract_categories ==
    /\ IF ~notes_json.exists
       THEN /\ last' = [op |-> "extract_categories", err |-> "FileNotFoundError"]
            /\ UNCHANGED extractions_json
       ELSE \E answers \in [1..Len(notes_json.data) -> Answers] :
               LET r == ExtractLoop(notes_json.data, answers, 1, <<>>) IN
               /\ extractions_json' = IF r.err = "none"
                                     THEN File(r.response_list)
                                     ELSE extractions_json
               /\ last' = [op |-> "extract_categories", err |-> r.err]
    /\ UNCHANGED <<inbox, processed, notes_json, merged_json, category_notes_json>>

\* ------------------------------------------------------- merge_categories

\* the categories of the extractions of one record, from position j on
RECURSIVE CategoriesOf(_, _)
CategoriesOf(extractions_list, j) ==
    IF j > Len(extractions_list) THEN <<>>
    ELSE <<extractions_list[j].category>> \o CategoriesOf(extractions_list, j + 1)

\* all_categories_list: the category of every extraction of every record
\* that is not unused, from record i on
RECURSIVE AllCategoriesList(_, _)
AllCategoriesList(extractions, i) ==
    IF i > Len(extractions) THEN <<>>
    ELSE (IF ~extractions[i].unused
          THEN CategoriesOf(extractions[i].extractions, 1)
          ELSE <<>>)
         \o AllCategoriesList(extractions, i + 1)

\* what merge_categories does with the collaborator's answer to
\* all_categories_list: validate it against the schema and dump it
MergeResult(all_categories_list, answer) ==
    IF answer.kind # "ok"
    THEN [err |-> answer.kind, merged_category_list |-> [categories |-> <<>>]]
    ELSE [err |-> "none", merged_category_list |-> [categories |-> answer.mapping]]

merge_categories ==
    /\ IF ~extractions_json.exists
       THEN /\ last' = [op |-> "merge_categories", err |-> "FileNotFoundError"]
            /\ UNCHANGED merged_json
       ELSE \E answer \in MergeAnswers :
               LET r == MergeResult(AllCategoriesList(extractions_json.data, 1), answer) IN
               /\ merged_json' = IF r.err = "none"
                                THEN File(r.merged_category_list)
                                ELSE merged_json
               /\ last' = [op |-> "merge_categories", err |-> r.err]
    /\ UNCHANGED <<inbox, processed, notes_json, extractions_json, category_notes_json>>

\* --------------------------------------------------- build_category_notes

\* d[k] = v of a Python dict
Put(d, k, v) == [x \in DOMAIN d \cup {k} |-> IF x = k THEN v ELSE d[x]]

\* MapSubs with the assignment turned into a setdefault: a sub category
\* keeps the first group that listed it
RECURSIVE MapSubsFirstWins(_, _, _, _)
MapSubsFirstWins(category_mapping, normalized_name, sub_categories, j) ==
    IF j > Len(sub_categories) THEN category_mapping
    ELSE MapSubsFirstWins(IF sub_categories[j] \in DOMAIN category_mapping
                          THEN category_mapping
                          ELSE Put(category_mapping, sub_categories[j], normalized_name),
                          normalized_name, sub_categories, j + 1)

\* Step 1, inner loop: every sub category of one group, from position j on
RECURSIVE MapSubs(_, _, _, _)
MapSubs(category_mapping, normalized_name, sub_categories, j) ==
    IF j > Len(sub_categories) THEN category_mapping
    ELSE MapSubs(Put(category_mapping, sub_categories[j], normalized_name),
                 normalized_name, sub_categories, j + 1)

\* Step 1, outer loop: every group of categories_dict, from position i on
RECURSIVE CategoryMapping(_, _, _)
CategoryMapping(categories_dict, i, category_mapping) ==
    IF i > Len(categories_dict) THEN category_mapping
    ELSE CategoryMapping(categories_dict, i + 1,
                         MapSubs(category_mapping, categories_dict[i].name,
                                 categories_dict[i].subs, 1))

\* NormalizedCat without the identity fallback: a raw category no group
\* lists goes to a catch-all bucket
NormalizedCatNoFallback(category_mapping, raw_cat) ==
    IF raw_cat \in DOMAIN category_mapping
    THEN category_mapping[raw_cat]
    ELSE "Uncategorized"

\* the key one extraction is filed under
NormalizedCat(category_mapping, raw_cat) ==
    IF raw_cat \in DOMAIN category_mapping
    THEN category_mapping[raw_cat]
    ELSE raw_cat

\* FileExtractions with the bucket created anew for every extraction instead
\* of only when the key is missing
RECURSIVE FileExtractionsResetBucket(_, _, _, _, _)
FileExtractionsResetBucket(organized_notes, category_mapping, note_id, extractions_list, j) ==
    IF j > Len(extractions_list) THEN organized_notes
    ELSE LET normalized_cat == NormalizedCat(category_mapping,
                                             extractions_list[j].category)
             entry == [note_id |-> note_id, content |-> extractions_list[j].content]
         IN FileExtractionsResetBucket(Put(organized_notes, normalized_cat, <<entry>>),
                                       category_mapping, note_id, extractions_list, j + 1)

\* Step 2, inner loop: every extraction of one record, from position j on
RECURSIVE FileExtractions(_, _, _, _, _)
FileExtractions(organized_notes, category_mapping, note_id, extractions_list, j) ==
    IF j > Len(extractions_list) THEN organized_notes
    ELSE LET normalized_cat == NormalizedCat(category_mapping,
                                             extractions_list[j].category)
             bucket == IF normalized_cat \in DOMAIN organized_notes
                       THEN organized_notes[normalized_cat]
                       ELSE <<>>
             entry == [note_id |-> note_id, content |-> extractions_list[j].content]
         IN FileExtractions(Put(organized_notes, normalized_cat, Append(bucket, entry)),
                            category_mapping, note_id, extractions_list, j + 1)

\* Step 2, outer loop: every record of extractions, from position i on
RECURSIVE OrganizeNotes(_, _, _, _)
OrganizeNotes(extractions, category_mapping, i, organized_notes) ==
    IF i > Len(extractions) THEN organized_notes
    ELSE OrganizeNotes(extractions, category_mapping, i + 1,
                       IF extractions[i].unused
                       THEN organized_notes
                       ELSE FileExtractions(organized_notes, category_mapping,
                                            extractions[i].note_id,
                                            extractions[i].extractions, 1))

build_category_notes ==
    /\ IF ~extractions_json.exists \/ ~merged_json.exists
       THEN /\ last' = [op |-> "build_category_notes", err |-> "FileNotFoundError"]
            /\ UNCHANGED category_notes_json
       ELSE LET category_mapping ==
                    CategoryMapping(merged_json.data.categories, 1, EmptyDir)
                organized_notes ==
                    OrganizeNotes(extractions_json.data, category_mapping, 1, EmptyDir)
            IN /\ category_notes_json' = File(organized_notes)
               /\ last' = [op |-> "build_category_notes", err |-> "none"]
    /\ UNCHANGED <<inbox, processed, notes_json, extractions_json, merged_json>>

\* ------------------------------------------------------------ the pipeline

\* a fresh checkout: sources wait in notes/inbox, no stage has run
Init ==
    /\ inbox \in UNION {[D -> Contents] : D \in SUBSET NoteFiles}
    /\ processed = EmptyDir
    /\ notes_json = NoFile
    /\ extractions_json = NoFile
    /\ merged_json = NoFile
    /\ category_notes_json = NoFile
    /\ last = [op |-> "none", err |-> "none"]
    /\ runs = 0

\* the stages in any order, as the menu of __main__ lets the user run them
Next ==
    \/ Arrive /\ UNCHANGED runs
    \/ runs < MaxRuns /\ runs' = runs + 1 /\ pre_process_notes
    \/ runs < MaxRuns /\ runs' = runs + 1 /\ extract_categories
    \/ runs < MaxRuns /\ runs' = runs + 1 /\ merge_categories
    \/ runs < MaxRuns /\ runs' = runs + 1 /\ build_category_notes

Spec == Init /\ [][Next]_vars

\* the Note Store alone, run any number of times
NextIngest ==
    \/ Arrive /\ UNCHANGED runs
    \/ pre_process_notes /\ UNCHANGED runs

SpecIngest == Init /\ [][NextIngest]_vars

\* the Category Indexer alone, on any extraction snapshot and any mapping
\* the earlier stages can have left, or on a missing one
Snapshots == SeqsUpTo(Responses, Cardinality(NoteFiles))

InitIndex ==
    /\ inbox = EmptyDir
    /\ processed = EmptyDir
    /\ notes_json = NoFile
    /\ extractions_json \in {NoFile} \cup {File(s) : s \in Snapshots}
    /\ merged_json \in {NoFile} \cup {File([categories |-> m]) : m \in Mappings}
    /\ category_notes_json = NoFile
    /\ last = [op |-> "none", err |-> "none"]
    /\ runs = 0

NextIndex == build_category_notes /\ UNCHANGED runs

SpecIndex == InitIndex /\ [][NextIndex]_vars

\* one run of the program in its single-step mode: the step the user picked
\* runs once, on the files earlier runs left, and the program ends

\* the note snapshot a run of pre_process_notes writes for the sources
\* `texts` (file name -> text) scanned in `order`
NotesOf(order, texts) ==
    [k \in 1..Len(order) |-> [title |-> order[k], content |-> texts[order[k]], ID |-> k - 1]]

Dirs == UNION {[D -> Contents] : D \in SUBSET NoteFiles}

\* snapshots an earlier run of a stage left behind
PriorSnapshots == {s \in Snapshots : Len(s) <= 1}
PriorMappings == {m \in Mappings : Len(m) <= 1}

\* an earlier run ingested the sources now in notes/processed; the later
\* stages have not run
Ingested ==
    /\ processed \in Dirs
    /\ notes_json \in {File(NotesOf(o, processed)) : o \in Orders(DOMAIN processed)}
    /\ merged_json = NoFile
    /\ category_notes_json = NoFile
    /\ last = [op |-> "none", err |-> "none"]
    /\ runs = 0

InitStep ==
    \/ Init
    \/ Ingested /\ inbox \in Dirs /\ extractions_json = NoFile
    \/ Ingested /\ inbox = EmptyDir
                /\ extractions_json \in {File(s) : s \in PriorSnapshots}
    \/ /\ inbox = EmptyDir
       /\ processed = EmptyDir
       /\ notes_json = NoFile
       /\ extractions_json \in {File(s) : s \in Snapshots}
       /\ merged_json \in {NoFile} \cup {File([categories |-> m]) : m \in PriorMappings}
       /\ category_notes_json = NoFile
       /\ last = [op |-> "none", err |-> "none"]
       /\ runs = 0

NextStep ==
    \/ last.op = "none" /\ pre_process_notes /\ UNCHANGED runs
    \/ last.op = "none" /\ extract_categories /\ UNCHANGED runs
    \/ last.op = "none" /\ merge_categories /\ UNCHANGED runs
    \/ last.op = "none" /\ build_category_notes /\ UNCHANGED runs

SpecStep == InitStep /\ [][NextStep]_vars

\* ------------------------------------------------------------- the claims

Stages == {"pre_process_notes", "extract_categories", "merge_categories",
           "build_category_notes"}

\* the last step was a run of stage op that returned without raising
Completed(op) == last.op = op /\ last.err = "none"

RECURSIVE SumOver(_, _)
SumOver(S, f) ==
    IF S = {} THEN 0
    ELSE LET x == CHOOSE y \in S : TRUE IN f[x] + SumOver(S \ {x}, f)

\* the records of a snapshot that are not unused
UsedRecords(extractions) == {i \in 1..Len(extractions) : ~extractions[i].unused}

\* fragments summed over the records that are not unused
FragmentCount(extractions) ==
    SumOver(UsedRecords(extractions),
            [i \in 1..Len(extractions) |-> Len(extractions[i].extractions)])

\* entries summed over the buckets of an index
EntryCount(index) == SumOver(DOMAIN index, [k \in DOMAIN index |-> Len(index[k])])

\* the raw labels of the fragments of the records that are not unused
ObservedLabels(extractions) ==
    UNION {{extractions[i].extractions[j].category :
               j \in 1..Len(extractions[i].extractions)} :
           i \in UsedRecords(extractions)}

\* the groups of a mapping that list raw label c
GroupsListing(mapping, c) ==
    {g \in 1..Len(mapping) : \E j \in 1..Len(mapping[g].subs) : mapping[g].subs[j] = c}

\* C1: after build_category_notes the entries of all buckets of the index
\* number as many as the fragments of all records that are not unused.
C1_IndexConservation ==
    Completed("build_category_notes") =>
        EntryCount(category_notes_json.data) = FragmentCount(extractions_json.data)

\* C1 witness: an index built from two fragments, one under a label the
\* mapping lists and one under a label it omits.
C1_Witness ==
    /\ Completed("build_category_notes")
    /\ FragmentCount(extractions_json.data) = 2
    /\ \E c \in ObservedLabels(extractions_json.data) :
          GroupsListing(merged_json.data.categories, c) = {}
    /\ \E c \in ObservedLabels(extractions_json.data) :
          GroupsListing(merged_json.data.categories, c) # {}

\* the fragments of the records that are not unused, in the order the
\* records and their extractions are iterated, each with the entry it yields
RECURSIVE UsedFragments(_, _)
UsedFragments(extractions, i) ==
    IF i > Len(extractions) THEN <<>>
    ELSE (IF extractions[i].unused THEN <<>>
          ELSE [j \in 1..Len(extractions[i].extractions) |->
                   [category |-> extractions[i].extractions[j].category,
                    entry |-> [note_id |-> extractions[i].note_id,
                               content |-> extractions[i].extractions[j].content]]])
         \o UsedFragments(extractions, i + 1)

\* the entries, in order, of the fragments whose raw label K sends to key k
EntriesUnder(frags, K, k) ==
    LET keep(f) == K[f.category] = k
        kept == SelectSeq(frags, keep)
    IN [n \in 1..Len(kept) |-> kept[n].entry]

\* the bucket of key k, empty when the index has no such key
Bucket(index, k) == IF k \in DOMAIN index THEN index[k] ELSE <<>>

Keys == RawLabels \cup CanonicalNames

\* C9: every fragment of a record that is not unused is filed under exactly
\* one key: the canonical key of a group that lists its raw label when some
\* group does, its raw label itself otherwise; none is discarded.
C9_FiledUnderOneKey ==
    Completed("build_category_notes") =>
        LET frags == UsedFragments(extractions_json.data, 1)
            mapping == merged_json.data.categories
            index == category_notes_json.data
        IN \E K \in [RawLabels -> Keys] :
              /\ \A c \in RawLabels :
                    IF GroupsListing(mapping, c) # {}
                    THEN \E g \in GroupsListing(mapping, c) : K[c] = mapping[g].name
                    ELSE K[c] = c
              /\ DOMAIN index = {K[frags[n].category] : n \in 1..Len(frags)}
              /\ \A k \in DOMAIN index : index[k] = EntriesUnder(frags, K, k)

\* C9 witness: an index holding a fragment filed under its own raw label,
\* which no group lists, beside one filed under a group's canonical key.
C9_Witness ==
    /\ Completed("build_category_notes")
    /\ \E c \in ObservedLabels(extractions_json.data) :
          /\ GroupsListing(merged_json.data.categories, c) = {}
          /\ c \in DOMAIN category_notes_json.data
    /\ \E c \in ObservedLabels(extractions_json.data) :
          /\ GroupsListing(merged_json.data.categories, c) # {}
          /\ c \notin DOMAIN category_notes_json.data

\* the group that comes latest among those listing c
LastGroupListing(mapping, c) ==
    CHOOSE g \in GroupsListing(mapping, c) : \A h \in GroupsListing(mapping, c) : h <= g

\* C10: when a raw label is listed in two or more groups, every fragment
\* carrying it is filed under the canonical key of the latest such group and
\* under no earlier group's key.
C10_LaterGroupWins ==
    Completed("build_category_notes") =>
        LET frags == UsedFragments(extractions_json.data, 1)
            mapping == merged_json.data.categories
            index == category_notes_json.data
            K == [c \in RawLabels |->
                    IF GroupsListing(mapping, c) = {} THEN c
                    ELSE mapping[LastGroupListing(mapping, c)].name]
        IN (\E c \in ObservedLabels(extractions_json.data) :
               Cardinality(GroupsListing(mapping, c)) >= 2)
           => \A k \in Keys : Bucket(index, k) = EntriesUnder(frags, K, k)

\* C10 witness: two fragments carry a label that two groups list, and the
\* index holds both under the later group's key.
C10_Witness ==
    /\ Completed("build_category_notes")
    /\ \E c \in ObservedLabels(extractions_json.data) :
          LET mapping == merged_json.data.categories IN
          /\ Cardinality(GroupsListing(mapping, c)) >= 2
          /\ Len(Bucket(category_notes_json.data,
                        mapping[LastGroupListing(mapping, c)].name)) = 2

\* C8: the NoteRecords pre_process_notes writes carry the ids 0..n-1, the
\* k-th scanned source receiving id k.
C8_DenseIds ==
    notes_json.exists =>
        \A k \in 1..Len(notes_json.data) : notes_json.data[k].ID = k - 1

\* C8 witness: a run that ingested two sources.
C8_Witness ==
    /\ Completed("pre_process_notes")
    /\ Len(notes_json.data) = 2
    /\ notes_json.data[1].title # notes_json.data[2].title

\* C5: a run of pre_process_notes that finds the intake area empty, after an
\* earlier run wrote the note snapshot, leaves the snapshot as it was.
C5_SecondRunNoOp ==
    [][(notes_json.exists /\ inbox = EmptyDir /\ last'.op = "pre_process_notes")
         => notes_json' = notes_json]_vars

\* C6: every source a run of pre_process_notes moved out of the intake area,
\* a run that a failure ended included, is in the note snapshot after the run.
C6_NoRelocationBeforeCapture ==
    [][last'.op = "pre_process_notes"
         => \A f \in DOMAIN inbox \ DOMAIN inbox' :
               /\ notes_json'.exists
               /\ \E k \in 1..Len(notes_json'.data) :
                     /\ notes_json'.data[k].title = f
                     /\ notes_json'.data[k].content = inbox[f]]_vars

\* C2: when extract_categories returns, the extraction snapshot has one
\* record per note, each carrying the id of the note it was produced from.
C2_CoversEveryNote ==
    Completed("extract_categories") =>
        /\ Len(extractions_json.data) = Len(notes_json.data)
        /\ \A k \in 1..Len(notes_json.data) :
              extractions_json.data[k].note_id = IdStr(notes_json.data[k].ID)

\* C3: every persisted ExtractionRecord is unused exactly when its
\* extractions list is empty.
C3_UnusedIffEmpty ==
    extractions_json.exists =>
        \A k \in 1..Len(extractions_json.data) :
            extractions_json.data[k].unused <=> extractions_json.data[k].extractions = <<>>

\* C4: a mapping that merge_categories accepted and persisted lists every
\* raw label of the records that are not unused in some group; a mapping
\* that omits one ends the run with the incompleteness reported.
C4_CoverageVerified ==
    Completed("merge_categories") =>
        \A c \in ObservedLabels(extractions_json.data) :
            GroupsListing(merged_json.data.categories, c) # {}

\* C7: a stage that raises leaves every snapshot as it was before the run;
\* a stage that returns skipped nothing: extract_categories wrote one record
\* per note, pre_process_notes one per source and emptied the intake area.
C7_FailureAbortsStage ==
    [][/\ (last'.op \in Stages /\ last'.err # "none")
             => UNCHANGED <<notes_json, extractions_json, merged_json,
                            category_notes_json>>
       /\ (last'.op = "extract_categories" /\ last'.err = "none")
             => Len(extractions_json'.data) = Len(notes_json.data)
       /\ (last'.op = "pre_process_notes" /\ last'.err = "none")
             => /\ Len(notes_json'.data) = Cardinality(DOMAIN inbox)
                /\ inbox' = EmptyDir
       /\ (last'.op = "merge_categories" /\ last'.err = "none")
             => merged_json'.exists]_vars

\* C7 witness: the collaborator's answer for a note failed validation in a
\* run of extract_categories, and the snapshot of an earlier run is in place.
C7_Witness ==
    /\ last.op = "extract_categories"
    /\ last.err = "SchemaValidationError"
    /\ extractions_json.exists
    /\ extractions_json.data # <<>>
====
